---- MODULE Spec2Model ----
(***************************************************************************)
(* The SNMP attribute cache and table reconstruction of snmp.py.           *)
(*                                                                         *)
(* Raw (wire) strings are sequences of one-character strings; the raw      *)
(* value None is the one-element sequence <<"None">>.  A python value is a *)
(* record [k |-> kind, v |-> payload].  The transport (snmp_get, snmp_set, *)
(* snmp_walk) is the hub: a store of raw strings per OID whose calls may   *)
(* succeed, be ignored by the hub, or fail.                                *)
(***************************************************************************)
EXTENDS Integers, Sequences, FiniteSets, TLC

VARIABLES hub, attr, table, loaded, ops, hist, codec

vars == <<hub, attr, table, loaded, ops, hist, codec>>

(***************************************************************************)
(* Bounds of the model.                                                    *)
(***************************************************************************)
\* how many different integers are written to and held by the hub
NumInts == 1
\* how many OIDs the hub holds under the table at most
MaxWalk == 3
\* how many operations are performed on a loaded table
MaxOps == 2

(***************************************************************************)
(* AttributeStatus: the values of the enumeration members, as declared.    *)
(***************************************************************************)
OK == 1
UNSET == 2
NEEDS_WRITE == 2
NEEDS_READ == 3

\* AttributeStatus[name]: the member a name of the enumeration denotes
AttributeStatus ==
    [OK |-> OK, UNSET |-> UNSET, NEEDS_WRITE |-> NEEDS_WRITE, NEEDS_READ |-> NEEDS_READ]

(***************************************************************************)
(* Python values.                                                          *)
(***************************************************************************)
PyNone == [k |-> "None", v |-> <<>>]
PyStr(s) == [k |-> "str", v |-> s]
PyInt(n) == [k |-> "int", v |-> <<n>>]
PyEnum(name) == [k |-> "RowStatus", v |-> <<name>>]
PyIPv6(words) == [k |-> "IPv6", v |-> words]
PyBool(b) == [k |-> "bool", v |-> <<b>>]
PyMac(digits) == [k |-> "EUI", v |-> digits]
PyIPv4(words) == [k |-> "IPv4", v |-> words]
PyDateTime(fields) == [k |-> "datetime", v |-> fields]
\* an exception object held as a value
PyException(kind) == [k |-> kind, v |-> <<>>]

RawNone == <<"None">>

\* The outcome of a call: err is "" when the call returned val.
Return(val) == [err |-> "", val |-> val]
Raise(kind) == [err |-> kind, val |-> <<>>]

(***************************************************************************)
(* Digits.                                                                 *)
(***************************************************************************)
HexChars == <<"0", "1", "2", "3", "4", "5", "6", "7", "8", "9",
              "a", "b", "c", "d", "e", "f">>

IsHex(c) == \E i \in 1..16 : HexChars[i] = c

HexVal(c) == (CHOOSE i \in 1..16 : HexChars[i] = c) - 1

IsDec(c) == \E i \in 1..10 : HexChars[i] = c

RECURSIVE ParseInt(_, _)
\* int(s, base) for a string of digits of that base
ParseInt(s, base) ==
    IF s = <<>> THEN 0
    ELSE ParseInt(SubSeq(s, 1, Len(s) - 1), base) * base + HexVal(s[Len(s)])

RECURSIVE FormatInt(_, _)
\* the digits of n >= 0 in the base, without padding
FormatInt(n, base) ==
    IF n < base THEN <<HexChars[n + 1]>>
    ELSE FormatInt(n \div base, base) \o <<HexChars[(n % base) + 1]>>

\* "{0:02x}".format(w)
Hex02(w) == IF w < 16 THEN <<"0">> \o FormatInt(w, 16) ELSE FormatInt(w, 16)

Zeros(n) == [i \in 1..n |-> "0"]

RECURSIVE Join(_)
\* ''.join(parts)
Join(parts) == IF parts = <<>> THEN <<>> ELSE Head(parts) \o Join(Tail(parts))

(***************************************************************************)
(* Translators.  snmp(python value) gives the raw string, pyvalue(raw) the *)
(* python value; each gives Raise(..) where the code raises.               *)
(***************************************************************************)
NullSnmp(pv) ==
    IF pv = PyNone THEN Return(<<>>)
    ELSE IF pv.k = "int" THEN Return(FormatInt(pv.v[1], 10))
    ELSE IF pv.k = "str" THEN Return(pv.v)
    ELSE Return(<<"?">>)

NullPyvalue(raw) ==
    IF raw = <<>> THEN Return(PyNone)
    ELSE IF raw = RawNone THEN Return(PyNone)
    ELSE Return(PyStr(raw))

IntSnmp(pv) ==
    IF pv = PyNone THEN Return(<<>>)
    ELSE IF pv.k = "int" THEN Return(FormatInt(pv.v[1], 10))
    ELSE IF pv.k = "str" /\ pv.v # <<>> /\ \A i \in 1..Len(pv.v) : IsDec(pv.v[i])
         THEN Return(FormatInt(ParseInt(pv.v, 10), 10))
    ELSE IF pv.k = "str" THEN Raise("ValueError")
    ELSE Raise("TypeError")

IntPyvalue(raw) ==
    IF raw = <<>> THEN Return(PyNone)
    ELSE IF raw = RawNone THEN Raise("ValueError")
    ELSE IF \A i \in 1..Len(raw) : IsDec(raw[i])
         THEN Return(PyInt(ParseInt(raw, 10)))
    ELSE Raise("ValueError")

\* RowStatus: the members in declaration order, name and value
RowStatusMembers ==
    << [name |-> "ACTIVE", value |-> <<"1">>],
       [name |-> "NOT_IN_USE", value |-> <<"2">>],
       [name |-> "NOT_READY", value |-> <<"3">>],
       [name |-> "CREATE_AND_GO", value |-> <<"4">>],
       [name |-> "CREATE_AND_WAIT", value |-> <<"5">>],
       [name |-> "DESTROY", value |-> <<"6">>] >>

DESTROY == PyEnum("DESTROY")

\* EnumTranslator(RowStatus).snmp
EnumSnmp(pv) ==
    LET name == IF pv.k = "RowStatus" THEN pv.v[1]
                ELSE IF pv.k = "str" /\ Len(pv.v) = 1 THEN pv.v[1]
                ELSE "?"
        found == {i \in 1..Len(RowStatusMembers) : RowStatusMembers[i].name = name}
    IN  IF found = {} THEN Raise("KeyError")
        ELSE Return(RowStatusMembers[CHOOSE i \in found : TRUE].value)

\* EnumTranslator(RowStatus).pyvalue
EnumPyvalue(raw) ==
    LET found == {i \in 1..Len(RowStatusMembers) : RowStatusMembers[i].value = raw}
    IN  IF found = {} THEN Raise("ValueError")
        ELSE Return(PyEnum(RowStatusMembers[CHOOSE i \in found : TRUE].name))

IPv6Snmp(pv) ==
    IF pv = PyNone THEN Return(<<"$">> \o Zeros(32))
    ELSE IF pv.k = "int" /\ pv.v[1] < 65536
         THEN Return(<<"$">> \o Join([i \in 1..8 |-> Hex02(IF i = 8 THEN pv.v[1] ELSE 0)]))
    ELSE IF pv.k # "IPv6" THEN Raise("AddrFormatError")
    ELSE Return(<<"$">> \o Join([i \in 1..Len(pv.v) |-> Hex02(pv.v[i])]))

\* netaddr.IPAddress(int(digits, 16), 6).words: the eight 16-bit groups
IPv6Words(digits) ==
    LET padded == Zeros(32 - Len(digits)) \o digits
    IN  [i \in 1..8 |-> ParseInt(SubSeq(padded, 4 * i - 3, 4 * i), 16)]

IPv6Pyvalue(raw) ==
    IF raw = <<>> THEN Return(PyNone)
    ELSE IF raw = RawNone THEN Raise("AttributeError")
    ELSE IF raw[1] # "$" \/ ~(8 < Len(raw) /\ Len(raw) <= 33) THEN Raise("ValueError")
    ELSE IF \A i \in 2..Len(raw) : raw[i] = "0" THEN Return(PyNone)
    ELSE IF \E i \in 2..Len(raw) : ~IsHex(raw[i]) THEN Raise("ValueError")
    ELSE Return(PyIPv6(IPv6Words(Tail(raw))))

\* BoolTranslator.snmp
BoolSnmp(pv) ==
    IF pv.k = "str" /\ pv.v = <<"f", "a", "l", "s", "e">> THEN Return(<<"2">>)
    ELSE IF \/ pv = PyNone
            \/ pv = PyBool(FALSE)
            \/ pv = PyInt(0)
            \/ pv = PyStr(<<>>)
         THEN Return(<<"2">>)
    ELSE Return(<<"1">>)

\* BoolTranslator.pyvalue
BoolPyvalue(raw) ==
    IF raw = RawNone THEN Raise("ValueError")
    ELSE Return(PyBool(raw = <<"1">>))

\* "{0:0nx}".format(v): the hexadecimal digits of v, padded to n
HexPad(v, n) ==
    IF Len(FormatInt(v, 16)) >= n THEN FormatInt(v, 16)
    ELSE Zeros(n - Len(FormatInt(v, 16))) \o FormatInt(v, 16)

\* MacAddressTranslator.snmp; an EUI is held as its twelve hex digits
MacSnmp(pv) ==
    IF pv = PyNone THEN Return(<<"$">> \o Zeros(12))
    ELSE IF pv.k = "EUI" THEN Return(<<"$">> \o pv.v)
    ELSE IF pv.k = "int" THEN Return(<<"$">> \o HexPad(pv.v[1], 12))
    ELSE IF pv.k = "bool" THEN Return(<<"$">> \o HexPad(IF pv.v[1] THEN 1 ELSE 0, 12))
    ELSE IF pv.k = "str" /\ pv.v # <<>> /\ \A i \in 1..Len(pv.v) : IsDec(pv.v[i])
         THEN Return(<<"$">> \o HexPad(ParseInt(pv.v, 10), 12))
    ELSE IF pv.k = "str" THEN Raise("ValueError")
    ELSE Raise("TypeError")

\* MacAddressTranslator.pyvalue
MacPyvalue(raw) ==
    IF raw = RawNone \/ raw = <<>> \/ raw = <<"$">> \o Zeros(12) THEN Return(PyNone)
    ELSE IF raw[1] # "$" \/ Len(raw) # 13 THEN Raise("ValueError")
    ELSE IF \E i \in 2..Len(raw) : ~IsHex(raw[i]) THEN Raise("AddrFormatError")
    ELSE Return(PyMac(Tail(raw)))

\* IPv4Translator.snmp
IPv4Snmp(pv) ==
    IF pv = PyNone THEN Return(<<"$">> \o Zeros(8))
    ELSE IF pv.k = "IPv4"
         THEN Return(<<"$">> \o Join([i \in 1..Len(pv.v) |-> Hex02(pv.v[i])]))
    ELSE IF pv.k = "IPv6" THEN Raise("ValueError")
    ELSE IF pv.k = "int" /\ pv.v[1] < 256
         THEN Return(<<"$">> \o Join([i \in 1..4 |-> Hex02(IF i = 4 THEN pv.v[1] ELSE 0)]))
    ELSE Raise("AddrFormatError")

\* IPv4Translator.pyvalue
IPv4Pyvalue(raw) ==
    IF raw = <<>> THEN Return(PyNone)
    ELSE IF raw = RawNone THEN Raise("AttributeError")
    ELSE IF raw[1] # "$" \/ Len(raw) # 9 THEN Raise("ValueError")
    ELSE IF \A i \in 2..Len(raw) : raw[i] = "0" THEN Return(PyNone)
    ELSE IF \E i \in 2..Len(raw) : ~IsHex(raw[i]) THEN Raise("ValueError")
    ELSE Return(PyIPv4([i \in 1..4 |-> ParseInt(SubSeq(Tail(raw), 2 * i - 1, 2 * i), 16)]))

\* IPAddressTranslator.snmp
IPAddressSnmp(pv) ==
    IF pv = PyNone THEN Return(<<"$">> \o Zeros(8))
    ELSE IF pv.k = "IPv4" THEN IPv4Snmp(pv)
    ELSE IF pv.k = "IPv6" THEN IPv6Snmp(pv)
    ELSE IF pv.k = "int" /\ pv.v[1] < 256 THEN IPv4Snmp(PyIPv4(<<0, 0, 0, pv.v[1]>>))
    ELSE Raise("AddrFormatError")

\* IPAddressTranslator.pyvalue: a raw string without the prefix or shorter
\* than 9 gives the ValueError as the value returned
IPAddressPyvalue(raw) ==
    IF raw = <<>> THEN Return(PyNone)
    ELSE IF raw = RawNone THEN Raise("AttributeError")
    ELSE IF raw[1] # "$" \/ Len(raw) < 9 THEN Return(PyException("ValueError"))
    ELSE IF Len(raw) = 9 THEN IPv4Pyvalue(raw)
    ELSE IPv6Pyvalue(raw)

\* s[a:b]
Slice(s, a, b) == SubSeq(s, a + 1, IF b < Len(s) THEN b ELSE Len(s))

\* the days of a month of a year
DaysInMonth(year, month) ==
    IF month \in {4, 6, 9, 11} THEN 30
    ELSE IF month # 2 THEN 31
    ELSE IF year % 4 = 0 /\ (year % 100 # 0 \/ year % 400 = 0) THEN 29
    ELSE 28

\* datetime.datetime(year, month, day, hour, minute, second)
DateTime(f) ==
    IF /\ 1 <= f[1] /\ f[1] <= 9999
       /\ 1 <= f[2] /\ f[2] <= 12
       /\ 1 <= f[3] /\ f[3] <= DaysInMonth(f[1], f[2])
       /\ f[4] <= 23 /\ f[5] <= 59 /\ f[6] <= 59
    THEN Return(PyDateTime(f))
    ELSE Raise("ValueError")

\* DateTimeTranslator.pyvalue from the slices of the raw string on
DateTimeOf(fields) ==
    IF \E i \in 1..Len(fields) :
          fields[i] = <<>> \/ \E j \in 1..Len(fields[i]) : ~IsHex(fields[i][j])
    THEN Raise("ValueError")
    ELSE DateTime([i \in 1..Len(fields) |-> ParseInt(fields[i], 16)])

\* DateTimeTranslator.pyvalue
DateTimePyvalue(raw) ==
    IF raw = RawNone \/ raw = <<>> \/ raw = <<"$">> \o Zeros(16) THEN Return(PyNone)
    ELSE DateTimeOf(<<Slice(raw, 1, 5), Slice(raw, 5, 7), Slice(raw, 7, 9),
                      Slice(raw, 9, 11), Slice(raw, 11, 13), Slice(raw, 13, 15)>>)

\* DateTimeTranslator.snmp
DateTimeSnmp(pv) ==
    IF \/ pv = PyNone
       \/ pv = PyBool(FALSE)
       \/ pv = PyInt(0)
       \/ pv = PyStr(<<>>)
    THEN Return(<<"$">> \o Zeros(16))
    ELSE IF pv.k # "datetime" THEN Raise("TypeError")
    ELSE Return(<<"$">> \o HexPad(pv.v[1], 4) \o Hex02(pv.v[2]) \o Hex02(pv.v[3])
                \o Hex02(pv.v[4]) \o Hex02(pv.v[5]) \o Hex02(pv.v[6]) \o <<"0", "0">>)

snmp(translator, pv) ==
    CASE translator = "Null" -> NullSnmp(pv)
      [] translator = "Int" -> IntSnmp(pv)
      [] translator = "RowStatus" -> EnumSnmp(pv)
      [] translator = "IPv6" -> IPv6Snmp(pv)
      [] translator = "Bool" -> BoolSnmp(pv)
      [] translator = "Port" -> IntSnmp(pv)
      [] translator = "Mac" -> MacSnmp(pv)
      [] translator = "IPv4" -> IPv4Snmp(pv)
      [] translator = "IPAddress" -> IPAddressSnmp(pv)
      [] translator = "DateTime" -> DateTimeSnmp(pv)

pyvalue(translator, raw) ==
    CASE translator = "Null" -> NullPyvalue(raw)
      [] translator = "Int" -> IntPyvalue(raw)
      [] translator = "RowStatus" -> EnumPyvalue(raw)
      [] translator = "IPv6" -> IPv6Pyvalue(raw)
      [] translator = "Bool" -> BoolPyvalue(raw)
      [] translator = "Port" -> IntPyvalue(raw)
      [] translator = "Mac" -> MacPyvalue(raw)
      [] translator = "IPv4" -> IPv4Pyvalue(raw)
      [] translator = "IPAddress" -> IPAddressPyvalue(raw)
      [] translator = "DateTime" -> DateTimePyvalue(raw)

snmp_datatype(translator) ==
    CASE translator = "Null" -> "STRING"
      [] translator = "Int" -> "INT"
      [] translator = "RowStatus" -> "INT"
      [] translator = "IPv6" -> "STRING"
      [] translator = "Bool" -> "INT"
      [] translator = "Port" -> "PORT"
      [] translator = "Mac" -> "STRING"
      [] translator = "IPv4" -> "STRING"
      [] translator = "IPAddress" -> "STRING"
      [] translator = "DateTime" -> "STRING"

(***************************************************************************)
(* The transport.  so and go are the hub's answers to a set and to a get:  *)
(* a set is stored, silently ignored by the hub, or fails; a get answers   *)
(* with the stored raw string or fails.  An OID the hub does not hold      *)
(* cannot be read.                                                         *)
(***************************************************************************)
SetOutcomes == {"stored", "ignored", "fail"}
GetOutcomes == {"ok", "fail"}

Absent == <<"absent">>

\* A transport call as it was made: a get with the raw string it returned, a
\* set with the raw string and data type it was given, and whether it failed.
GetCall(oid, got) ==
    [op |-> "get", oid |-> oid, raw |-> got.val, datatype |-> "", err |-> got.err]
SetCall(oid, raw, datatype, sent) ==
    [op |-> "set", oid |-> oid, raw |-> raw, datatype |-> datatype, err |-> sent.err]
WalkCall(oid, err) ==
    [op |-> "walk", oid |-> oid, raw |-> <<>>, datatype |-> "", err |-> err]

snmp_get(h, oid, go) ==
    IF go = "fail" \/ h[oid] = Absent THEN Raise("TransportError")
    ELSE Return(h[oid])

\* the hub after snmp_set, and whether the call failed
snmp_set(h, oid, raw, so) ==
    IF so = "fail" THEN [err |-> "TransportError", hub |-> h]
    ELSE IF so = "ignored" THEN [err |-> "", hub |-> h]
    ELSE [err |-> "", hub |-> [h EXCEPT ![oid] = raw]]

(***************************************************************************)
(* RawAttribute and Attribute.  Each operation gives the outcome of the    *)
(* call (err, val), the attribute and the hub after it, and the transport  *)
(* calls it made, in order.                                                *)
(***************************************************************************)
NoAttr == <<>>

Outcome(res, a, h, calls) ==
    [err |-> res.err, val |-> res.val, a |-> a, hub |-> h, calls |-> calls]

\* RawAttribute.reread marking the attribute OK also when the get raised
reread_ok_on_failure(a, h, go) ==
    LET got == snmp_get(h, a.oid, go)
    IN  IF got.err # ""
        THEN Outcome(got, [a EXCEPT !.status = OK], h, <<GetCall(a.oid, got)>>)
        ELSE Outcome(Return(<<>>),
                     [a EXCEPT !.value = got.val, !.status = OK],
                     h, <<GetCall(a.oid, got)>>)

\* RawAttribute.reread marking the attribute OK without keeping what it got
reread_status_only(a, h, go) ==
    LET got == snmp_get(h, a.oid, go)
    IN  IF got.err # "" THEN Outcome(got, a, h, <<GetCall(a.oid, got)>>)
        ELSE Outcome(Return(<<>>), [a EXCEPT !.status = OK], h, <<GetCall(a.oid, got)>>)

\* RawAttribute.reread forgetting the cached value before the get
reread_value_cleared(a, h, go) ==
    LET got == snmp_get(h, a.oid, go)
    IN  IF got.err # ""
        THEN Outcome(got, [a EXCEPT !.value = <<>>], h, <<GetCall(a.oid, got)>>)
        ELSE Outcome(Return(<<>>),
                     [a EXCEPT !.value = got.val, !.status = OK],
                     h, <<GetCall(a.oid, got)>>)

\* RawAttribute.reread
reread(a, h, go) ==
    LET got == snmp_get(h, a.oid, go)
    IN  IF got.err # "" THEN Outcome(got, a, h, <<GetCall(a.oid, got)>>)
        ELSE Outcome(Return(<<>>),
                     [a EXCEPT !.value = got.val, !.status = OK],
                     h, <<GetCall(a.oid, got)>>)

\* RawAttribute.__get__ after reread: the value it cached, unless it raised
Cached(r) ==
    IF r.err # "" THEN r ELSE Outcome(Return(r.a.value), r.a, r.hub, r.calls)

\* RawAttribute.__get__ without the cache: every read goes to the hub
RawGet_uncached(a, h, go) ==
    IF a.status = UNSET
    THEN Outcome(Raise("AttributeError"), a, h, <<>>)
    ELSE Cached(reread(a, h, go))

\* RawAttribute.__get__
RawGet(a, h, go) ==
    IF a.status = NEEDS_READ
    THEN Cached(reread(a, h, go))
    ELSE IF a.status = UNSET
    THEN Outcome(Raise("AttributeError"), a, h, <<>>)
    ELSE Outcome(Return(a.value), a, h, <<>>)

\* RawAttribute._write caching the value before the read-back is compared
RawWrite_cache_first(a, h, value, so, go) ==
    LET sent == snmp_set(h, a.oid, value, so)
        readback == snmp_get(sent.hub, a.oid, go)
        c1 == <<SetCall(a.oid, value, a.datatype, sent)>>
        c2 == c1 \o <<GetCall(a.oid, readback)>>
        written == [a EXCEPT !.value = value, !.status = OK]
    IN  IF sent.err # "" THEN Outcome(Raise(sent.err), a, h, c1)
        ELSE IF a.readback_after_write
        THEN IF readback.err # "" THEN Outcome(readback, written, sent.hub, c2)
             ELSE IF readback.val # value
             THEN Outcome(Raise("ValueError"), written, sent.hub, c2)
             ELSE Outcome(Return(<<>>), written, sent.hub, c2)
        ELSE Outcome(Return(<<>>), written, sent.hub, c1)

\* RawAttribute._write caching the value but leaving the status as it was
RawWrite_status_kept(a, h, value, so, go) ==
    LET sent == snmp_set(h, a.oid, value, so)
        readback == snmp_get(sent.hub, a.oid, go)
        c1 == <<SetCall(a.oid, value, a.datatype, sent)>>
        c2 == c1 \o <<GetCall(a.oid, readback)>>
        written == [a EXCEPT !.value = value]
    IN  IF sent.err # "" THEN Outcome(Raise(sent.err), a, h, c1)
        ELSE IF a.readback_after_write
        THEN IF readback.err # "" THEN Outcome(readback, a, sent.hub, c2)
             ELSE IF readback.val # value
             THEN Outcome(Raise("ValueError"), a, sent.hub, c2)
             ELSE Outcome(Return(<<>>), written, sent.hub, c2)
        ELSE Outcome(Return(<<>>), written, sent.hub, c1)

\* RawAttribute._write marking the cache stale when the hub refuses the value
RawWrite_invalidating(a, h, value, so, go) ==
    LET sent == snmp_set(h, a.oid, value, so)
        readback == snmp_get(sent.hub, a.oid, go)
        c1 == <<SetCall(a.oid, value, a.datatype, sent)>>
        c2 == c1 \o <<GetCall(a.oid, readback)>>
        written == [a EXCEPT !.value = value, !.status = OK]
        stale == [a EXCEPT !.status = NEEDS_READ]
    IN  IF sent.err # "" THEN Outcome(Raise(sent.err), a, h, c1)
        ELSE IF a.readback_after_write
        THEN IF readback.err # "" THEN Outcome(readback, a, sent.hub, c2)
             ELSE IF readback.val # value
             THEN Outcome(Raise("ValueError"), stale, sent.hub, c2)
             ELSE Outcome(Return(<<>>), written, sent.hub, c2)
        ELSE Outcome(Return(<<>>), written, sent.hub, c1)

\* RawAttribute._write setting the value once more when the hub refused it
RawWrite_retrying(a, h, value, so, go) ==
    LET sent == snmp_set(h, a.oid, value, so)
        readback == snmp_get(sent.hub, a.oid, go)
        c1 == <<SetCall(a.oid, value, a.datatype, sent)>>
        c2 == c1 \o <<GetCall(a.oid, readback)>>
        written == [a EXCEPT !.value = value, !.status = OK]
    IN  IF sent.err # "" THEN Outcome(Raise(sent.err), a, h, c1)
        ELSE IF a.readback_after_write
        THEN IF readback.err # "" THEN Outcome(readback, a, sent.hub, c2)
             ELSE IF readback.val # value
             THEN Outcome(Raise("ValueError"), a, sent.hub, c2 \o c1)
             ELSE Outcome(Return(<<>>), written, sent.hub, c2)
        ELSE Outcome(Return(<<>>), written, sent.hub, c1)

\* RawAttribute._write, which is also RawAttribute.__set__
RawWrite(a, h, value, so, go) ==
    LET sent == snmp_set(h, a.oid, value, so)
        readback == snmp_get(sent.hub, a.oid, go)
        c1 == <<SetCall(a.oid, value, a.datatype, sent)>>
        c2 == c1 \o <<GetCall(a.oid, readback)>>
        written == [a EXCEPT !.value = value, !.status = OK]
    IN  IF sent.err # "" THEN Outcome(Raise(sent.err), a, h, c1)
        ELSE IF a.readback_after_write
        THEN IF readback.err # "" THEN Outcome(readback, a, sent.hub, c2)
             ELSE IF readback.val # value
             THEN Outcome(Raise("ValueError"), a, sent.hub, c2)
             ELSE Outcome(Return(<<>>), written, sent.hub, c2)
        ELSE Outcome(Return(<<>>), written, sent.hub, c1)

\* the attribute as RawAttribute.__init__ assigns it
NewAttribute(oid, translator, status, value, readback_after_write) ==
    [oid |-> oid, translator |-> translator,
     datatype |-> snmp_datatype(translator),
     status |-> status, value |-> value,
     readback_after_write |-> readback_after_write]

\* the outcome of a constructor whose write had the outcome w: no attribute
\* when it raised
Constructed(w) ==
    IF w.err # "" THEN Outcome(w, NoAttr, w.hub, w.calls) ELSE w

\* RawAttribute.__init__ writing without asking for an instance
RawInit_unguarded(oid, translator, status, value, instance, readback_after_write, h, so, go) ==
    IF status = NEEDS_WRITE
    THEN Constructed(RawWrite(NewAttribute(oid, translator, status, value,
                                           readback_after_write),
                              h, value, so, go))
    ELSE Outcome(Return(<<>>),
                 NewAttribute(oid, translator, status, value, readback_after_write),
                 h, <<>>)

\* RawAttribute.__init__; instance says whether an instance was passed
RawInit(oid, translator, status, value, instance, readback_after_write, h, so, go) ==
    IF status = NEEDS_WRITE /\ ~instance
    THEN Outcome(Raise("TypeError"), NoAttr, h, <<>>)
    ELSE IF status = NEEDS_WRITE
    THEN Constructed(RawWrite(NewAttribute(oid, translator, status, value,
                                           readback_after_write),
                              h, value, so, go))
    ELSE Outcome(Return(<<>>),
                 NewAttribute(oid, translator, status, value, readback_after_write),
                 h, <<>>)

\* Attribute.__init__ from the call of RawAttribute.__init__ on, raw being the
\* outcome of evaluating its value argument
AttributeInitRaw(oid, translator, instance, raw, status, readback_after_write, h, so, go) ==
    IF raw.err # "" THEN Outcome(raw, NoAttr, h, <<>>)
    ELSE RawInit(oid, translator, status, raw.val, instance,
                 readback_after_write, h, so, go)

\* Attribute.__init__
AttributeInit(oid, translator, instance, value, status, readback_after_write, h, so, go) ==
    AttributeInitRaw(oid, translator, instance,
                     IF status = NEEDS_READ THEN Return(RawNone)
                     ELSE snmp(translator, value),
                     status, readback_after_write, h, so, go)

\* Attribute.__get__ from the return of RawAttribute.__get__ on
Translated(translator, r) ==
    IF r.err # "" THEN r
    ELSE Outcome(pyvalue(translator, r.val), r.a, r.hub, r.calls)

\* Attribute.__get__
AttributeGet(a, h, go) == Translated(a.translator, RawGet(a, h, go))

\* Attribute.__set__ from the call of RawAttribute.__set__ on, raw being the
\* outcome of evaluating its value argument
AttributeSetRaw(a, h, raw, so, go) ==
    IF raw.err # "" THEN Outcome(raw, a, h, <<>>)
    ELSE RawWrite(a, h, raw.val, so, go)

\* Attribute.__set__
AttributeSet(a, h, value, so, go) ==
    AttributeSetRaw(a, h, snmp(a.translator, value), so, go)

\* RawAttribute.__delete__
AttributeDelete(a, h) == Outcome(Raise("NotImplementedError"), a, h, <<>>)

(***************************************************************************)
(* The record of the operations performed last, oldest first: what was     *)
(* called, on what, with which argument, the attribute before the call,    *)
(* the outcome and the transport calls made.                               *)
(***************************************************************************)
Op(name, tgt, arg, pre, r) ==
    [op |-> name, tgt |-> tgt, arg |-> arg, pre |-> pre,
     err |-> r.err, val |-> r.val, calls |-> r.calls]

Record(h, rec) ==
    IF Len(h) < 2 THEN Append(h, rec) ELSE Append(Tail(h), rec)

(***************************************************************************)
(* Ordered dictionaries: sequences of [k |-> key, v |-> value] with no key *)
(* twice, in insertion order.                                              *)
(***************************************************************************)
DictKeys(d) == [i \in 1..Len(d) |-> d[i].k]

DictHas(d, key) == \E i \in 1..Len(d) : d[i].k = key

DictGet(d, key) == d[CHOOSE i \in 1..Len(d) : d[i].k = key].v

\* d[key] = val
DictPut(d, key, val) ==
    IF DictHas(d, key)
    THEN [i \in 1..Len(d) |-> IF d[i].k = key THEN [k |-> key, v |-> val] ELSE d[i]]
    ELSE Append(d, [k |-> key, v |-> val])

\* del d[key]
DictDel(d, key) ==
    LET at == CHOOSE i \in 1..Len(d) : d[i].k = key
    IN  SubSeq(d, 1, at - 1) \o SubSeq(d, at + 1, Len(d))

(***************************************************************************)
(* parse_table.  An OID is the sequence of its segments; the first segment *)
(* after the table's OID is the column, the rest is the row.               *)
(***************************************************************************)
column_id(table_oid, oid) == oid[Len(table_oid) + 1]

row_id(table_oid, oid) == SubSeq(oid, Len(table_oid) + 2, Len(oid))

RECURSIVE parse_table_from_overwriting(_, _, _)
\* parse_table starting a new row at every OID, also for a row it has
parse_table_from_overwriting(table_oid, walk_result, result_dict) ==
    IF walk_result = <<>> THEN result_dict
    ELSE parse_table_from_overwriting(table_oid, Tail(walk_result),
             DictPut(result_dict, row_id(table_oid, Head(walk_result).k),
                     DictPut(<<>>, column_id(table_oid, Head(walk_result).k),
                             Head(walk_result).v)))

RECURSIVE parse_table_from(_, _, _)
\* parse_table, the loop over the walk from result_dict on
parse_table_from(table_oid, walk_result, result_dict) ==
    IF walk_result = <<>> THEN result_dict
    ELSE LET oid == Head(walk_result).k
             raw_value == Head(walk_result).v
             this_column_id == column_id(table_oid, oid)
             this_row_id == row_id(table_oid, oid)
             row == IF DictHas(result_dict, this_row_id)
                    THEN DictGet(result_dict, this_row_id) ELSE <<>>
         IN  parse_table_from(table_oid, Tail(walk_result),
                 DictPut(result_dict, this_row_id,
                         DictPut(row, this_column_id, raw_value)))

parse_table(table_oid, walk_result) == parse_table_from(table_oid, walk_result, <<>>)

(***************************************************************************)
(* Table.  A row holds its column names in order (RowBase._keys) and the   *)
(* attribute of each; the table is the dictionary of its rows.  The column *)
(* mapping is the dictionary from column OID to name, translator and       *)
(* readback_after_write, with no name twice.                               *)
(***************************************************************************)
TableOutcome(err, t, h, calls) ==
    [err |-> err, table |-> t, hub |-> h, calls |-> calls]

\* the error of the first failed outcome of a sequence of outcomes, if any
FirstError(results) ==
    IF \E i \in 1..Len(results) : results[i].err # ""
    THEN results[CHOOSE i \in 1..Len(results) :
                     /\ results[i].err # ""
                     /\ \A j \in 1..(i - 1) : results[j].err = ""].err
    ELSE ""

\* the columns of one row of the walk that the mapping declares
DeclaredColumns(column_mapping, row) ==
    LET Declared(entry) == DictHas(column_mapping, entry.k)
    IN  SelectSeq(row, Declared)

\* Table.__init__, result_dict: the rows of the walk restricted to the
\* declared columns, without the rows that have none
DeclaredRows(column_mapping, rawtable) ==
    LET NotEmpty(entry) == entry.v # <<>>
    IN  SelectSeq([i \in 1..Len(rawtable) |->
                      [k |-> rawtable[i].k,
                       v |-> DeclaredColumns(column_mapping, rawtable[i].v)]],
                  NotEmpty)

\* Table.__init__, one attribute of class_dict made to be read from the hub
LoadAttribute_needs_read(oid, mapping, value, h) ==
    IF value.err # "" THEN Outcome(value, NoAttr, h, <<>>)
    ELSE AttributeInit(oid, mapping.translator, TRUE, value.val, NEEDS_READ,
                       mapping.readback_after_write, h, "stored", "ok")

\* Table.__init__, one attribute of class_dict: value is the outcome of
\* translator.pyvalue(raw_value)
LoadAttribute(oid, mapping, value, h) ==
    IF value.err # "" THEN Outcome(value, NoAttr, h, <<>>)
    ELSE AttributeInit(oid, mapping.translator, TRUE, value.val, OK,
                       mapping.readback_after_write, h, "stored", "ok")

\* Table.__init__, the row class: the attributes in the order of the columns
RowClass(ordered, class_dict) ==
    [keys |-> [i \in 1..Len(ordered) |-> ordered[i].v.name],
     attrs |-> [i \in 1..Len(ordered) |->
                   [k |-> ordered[i].v.name,
                    v |-> DictGet(class_dict, ordered[i].v.name)]]]

\* Table.__init__, class_dict left in the order it was built in
OrderedRow_as_built(column_mapping, class_dict) ==
    RowClass([i \in 1..Len(class_dict) |->
                 [k |-> "", v |-> [name |-> class_dict[i].k]]],
             class_dict)

\* Table.__init__, class_dict redone in the order of the mapping
OrderedRow(column_mapping, class_dict) ==
    LET InRow(column) == DictHas(class_dict, column.v.name)
    IN  RowClass(SelectSeq(column_mapping, InRow), class_dict)

\* Table.__init__, class_dict of a row from the attributes built for it
ClassDict(column_mapping, row, built) ==
    [i \in 1..Len(row) |->
        [k |-> DictGet(column_mapping, row[i].k).name, v |-> built[i].a]]

\* Table.__init__, one row: its attributes are built in the order of the
\* walk, then put in the order of the mapping
LoadedRow(column_mapping, row, built) ==
    [err |-> FirstError(built),
     row |-> OrderedRow(column_mapping, ClassDict(column_mapping, row, built))]

\* Table.__init__, one row, its attributes at the OID of the column alone
LoadRow_oid_without_row(table_oid, column_mapping, rowkey, row, h) ==
    LoadedRow(column_mapping, row,
              [i \in 1..Len(row) |->
                  LoadAttribute(table_oid \o <<row[i].k>>,
                                DictGet(column_mapping, row[i].k),
                                pyvalue(DictGet(column_mapping, row[i].k).translator,
                                        row[i].v),
                                h)])

LoadRow(table_oid, column_mapping, rowkey, row, h) ==
    LoadedRow(column_mapping, row,
              [i \in 1..Len(row) |->
                  LoadAttribute(table_oid \o <<row[i].k>> \o rowkey,
                                DictGet(column_mapping, row[i].k),
                                pyvalue(DictGet(column_mapping, row[i].k).translator,
                                        row[i].v),
                                h)])

\* Table.__init__, the rows registered, those without attributes left out,
\* or the first error raised
Registered(result_dict, rows, h, calls) ==
    LET Interesting(entry) == entry.v.keys # <<>>
    IN  IF FirstError(rows) # "" THEN TableOutcome(FirstError(rows), <<>>, h, calls)
        ELSE TableOutcome("", SelectSeq([i \in 1..Len(result_dict) |->
                                            [k |-> result_dict[i].k, v |-> rows[i].row]],
                                        Interesting),
                          h, calls)

\* Table.__init__ from result_dict on
LoadRows(table_oid, column_mapping, result_dict, h, calls) ==
    Registered(result_dict,
               [i \in 1..Len(result_dict) |->
                   LoadRow(table_oid, column_mapping,
                           result_dict[i].k, result_dict[i].v, h)],
               h, calls)

\* Table.__init__ from the walk on
LoadWalk(table_oid, column_mapping, walk_result, h, calls) ==
    LoadRows(table_oid, column_mapping,
             DeclaredRows(column_mapping, parse_table(table_oid, walk_result)),
             h, calls)

\* Table.__init__ raising its warnings: a walk without results, or one that
\* gives no row, fails
TableInit_warnings_raised(table_oid, column_mapping, given, walked, wo, h) ==
    IF given # <<>>
    THEN LoadWalk(table_oid, column_mapping, given, h, <<>>)
    ELSE IF wo = "fail"
    THEN TableOutcome("TransportError", <<>>, h,
                      <<WalkCall(table_oid, "TransportError")>>)
    ELSE IF LoadWalk(table_oid, column_mapping, walked, h, <<>>).table = <<>>
    THEN TableOutcome("UserWarning", <<>>, h, <<WalkCall(table_oid, "")>>)
    ELSE LoadWalk(table_oid, column_mapping, walked, h, <<WalkCall(table_oid, "")>>)

\* Table.__init__: given is the walk_result argument (empty when none is
\* passed), walked what snmp_walk returns and wo whether it fails
TableInit(table_oid, column_mapping, given, walked, wo, h) ==
    IF given # <<>>
    THEN LoadWalk(table_oid, column_mapping, given, h, <<>>)
    ELSE IF wo = "fail"
    THEN TableOutcome("TransportError", <<>>, h,
                      <<WalkCall(table_oid, "TransportError")>>)
    ELSE LoadWalk(table_oid, column_mapping, walked, h, <<WalkCall(table_oid, "")>>)

\* Table.new_row, rowclass_dict after the attribute of one more column
WithColumn(acc, name, made) ==
    [err |-> made.err,
     attrs |-> IF made.err # "" THEN acc.attrs
               ELSE Append(acc.attrs, [k |-> name, v |-> made.a]),
     hub |-> made.hub,
     calls |-> acc.calls \o made.calls]

RECURSIVE NewRowColumns(_, _, _, _, _, _, _)
\* Table.new_row, rowclass_dict: the attributes column by column in the
\* order of the mapping; outs[n] is the hub's answer to the n-th write
NewRowColumns(table_oid, columns, row_key, kwargs, outs, n, acc) ==
    IF columns = <<>> \/ acc.err # "" THEN acc
    ELSE IF ~DictHas(kwargs, Head(columns).v.name)
    THEN NewRowColumns(table_oid, Tail(columns), row_key, kwargs, outs, n, acc)
    ELSE NewRowColumns(table_oid, Tail(columns), row_key, kwargs, outs, n + 1,
             WithColumn(acc, Head(columns).v.name,
                 AttributeInit(table_oid \o <<Head(columns).k>> \o row_key,
                               Head(columns).v.translator, TRUE,
                               DictGet(kwargs, Head(columns).v.name), NEEDS_WRITE,
                               Head(columns).v.readback_after_write,
                               acc.hub, outs[n][1], outs[n][2])))

\* Table.new_row registering the row of the columns written when one failed
RowMade_partial_row(t, row_key, made) ==
    TableOutcome(made.err,
                 DictPut(t, row_key,
                         [keys |-> DictKeys(made.attrs), attrs |-> made.attrs]),
                 made.hub, made.calls)

\* Table.new_row from the row class on
RowMade(t, row_key, made) ==
    IF made.err # "" THEN TableOutcome(made.err, t, made.hub, made.calls)
    ELSE TableOutcome("", DictPut(t, row_key,
                                  [keys |-> DictKeys(made.attrs), attrs |-> made.attrs]),
                      made.hub, made.calls)

\* Table.new_row without the check of the row key
new_row_unchecked(t, table_oid, column_mapping, row_key, kwargs, outs, h) ==
    IF \E i \in 1..Len(kwargs) :
          kwargs[i].k \notin {column_mapping[j].v.name : j \in 1..Len(column_mapping)}
    THEN TableOutcome("TypeError", t, h, <<>>)
    ELSE RowMade(t, row_key,
                 NewRowColumns(table_oid, column_mapping, row_key, kwargs, outs, 1,
                               [err |-> "", attrs |-> <<>>, hub |-> h, calls |-> <<>>]))

\* Table.new_row checking the name of the first keyword argument only
new_row_first_name_checked(t, table_oid, column_mapping, row_key, kwargs, outs, h) ==
    IF DictHas(t, row_key)
    THEN TableOutcome("ValueError", t, h, <<>>)
    ELSE IF kwargs # <<>>
            /\ kwargs[1].k \notin {column_mapping[j].v.name : j \in 1..Len(column_mapping)}
    THEN TableOutcome("TypeError", t, h, <<>>)
    ELSE RowMade(t, row_key,
                 NewRowColumns(table_oid, column_mapping, row_key, kwargs, outs, 1,
                               [err |-> "", attrs |-> <<>>, hub |-> h, calls |-> <<>>]))

\* Table.new_row making the attributes in the order of the keyword arguments
new_row_in_caller_order(t, table_oid, column_mapping, row_key, kwargs, outs, h) ==
    IF DictHas(t, row_key)
    THEN TableOutcome("ValueError", t, h, <<>>)
    ELSE IF \E i \in 1..Len(kwargs) :
               kwargs[i].k \notin {column_mapping[j].v.name : j \in 1..Len(column_mapping)}
    THEN TableOutcome("TypeError", t, h, <<>>)
    ELSE RowMade(t, row_key,
                 NewRowColumns(table_oid,
                               [i \in 1..Len(kwargs) |->
                                   column_mapping[CHOOSE j \in 1..Len(column_mapping) :
                                       column_mapping[j].v.name = kwargs[i].k]],
                               row_key, kwargs, outs, 1,
                               [err |-> "", attrs |-> <<>>, hub |-> h, calls |-> <<>>]))

\* Table.new_row
new_row(t, table_oid, column_mapping, row_key, kwargs, outs, h) ==
    IF DictHas(t, row_key)
    THEN TableOutcome("ValueError", t, h, <<>>)
    ELSE IF \E i \in 1..Len(kwargs) :
               kwargs[i].k \notin {column_mapping[j].v.name : j \in 1..Len(column_mapping)}
    THEN TableOutcome("TypeError", t, h, <<>>)
    ELSE RowMade(t, row_key,
                 NewRowColumns(table_oid, column_mapping, row_key, kwargs, outs, 1,
                               [err |-> "", attrs |-> <<>>, hub |-> h, calls |-> <<>>]))

\* the table had its rows one class: the attribute of a column replaced in
\* every row that has the column
WithAttr_one_class(t, key, name, a) ==
    [i \in 1..Len(t) |->
        [k |-> t[i].k,
         v |-> IF DictHas(t[i].v.attrs, name)
               THEN [t[i].v EXCEPT !.attrs = DictPut(@, name, a)]
               ELSE t[i].v]]

\* the table with the attribute of a column of a row replaced
WithAttr(t, key, name, a) ==
    DictPut(t, key, [DictGet(t, key) EXCEPT !.attrs = DictPut(@, name, a)])

\* Table.__delitem__ from the assignment of DESTROY on: the row is deleted
\* unless the assignment raised
Destroyed(t, key, calls, sent) ==
    IF sent.err # ""
    THEN TableOutcome(sent.err, WithAttr(t, key, "rowstatus", sent.a),
                      sent.hub, calls \o sent.calls)
    ELSE TableOutcome("", DictDel(t, key), sent.hub, calls \o sent.calls)

\* Table.__delitem__ from hasattr(self[key], 'rowstatus') on: probe is the
\* outcome of reading the attribute
Destroy(t, key, so, go, probe) ==
    IF probe.err = "AttributeError"
    THEN TableOutcome("", DictDel(t, key), probe.hub, probe.calls)
    ELSE IF probe.err # ""
    THEN TableOutcome(probe.err, WithAttr(t, key, "rowstatus", probe.a),
                      probe.hub, probe.calls)
    ELSE Destroyed(t, key, probe.calls,
                   AttributeSet(probe.a, probe.hub, DESTROY, so, go))

\* Table.__delitem__ deleting the row without the assignment of DESTROY
delitem_without_destroy(t, key, so, go, h) ==
    IF ~DictHas(t, key)
    THEN TableOutcome("KeyError", t, h, <<>>)
    ELSE TableOutcome("", DictDel(t, key), h, <<>>)

\* Table.__delitem__
delitem(t, key, so, go, h) ==
    IF ~DictHas(t, key)
    THEN TableOutcome("KeyError", t, h, <<>>)
    ELSE IF ~DictHas(DictGet(t, key).attrs, "rowstatus")
    THEN TableOutcome("", DictDel(t, key), h, <<>>)
    ELSE Destroy(t, key, so, go,
                 AttributeGet(DictGet(DictGet(t, key).attrs, "rowstatus"), h, go))

(***************************************************************************)
(* One attribute of an instance whose transport is the hub.                *)
(***************************************************************************)
AttrOid == <<"1", "5", "0">>

Translators == {"Null", "Int"}
StatusNames == {"OK", "UNSET", "NEEDS_WRITE", "NEEDS_READ"}
Ints == 7..(6 + NumInts)
Values == {PyNone, PyStr(<<"a">>)} \cup {PyInt(n) : n \in Ints}
HubValues == {<<>>, <<"a">>} \cup {FormatInt(n, 10) : n \in Ints}

Init == /\ hub \in [{AttrOid} -> HubValues]
        /\ attr = NoAttr
        /\ table = <<>>
        /\ loaded = FALSE
        /\ ops = 0
        /\ hist = <<>>
        /\ codec = <<>>

Apply(name, arg, r) ==
    /\ attr' = r.a
    /\ hub' = r.hub
    /\ hist' = Record(hist, Op(name, "attr", arg, attr, r))
    /\ UNCHANGED <<table, loaded, ops, codec>>

\* the effect of an operation with the outcome r, the answers of the hub
\* that were not asked for being the first of them
ApplyAsked(name, arg, so, go, r) ==
    /\ (\A i \in 1..Len(r.calls) : r.calls[i].op # "set") => so = "stored"
    /\ (\A i \in 1..Len(r.calls) : r.calls[i].op # "get") => go = "ok"
    /\ Apply(name, arg, r)

\* attr = Attribute(oid, translator, instance, value, status, readback_after_write)
Construct ==
    /\ attr = NoAttr
    /\ \E translator \in Translators, status \in StatusNames, value \in Values,
          instance \in BOOLEAN, rb \in BOOLEAN, so \in SetOutcomes, go \in GetOutcomes :
          ApplyAsked("construct",
                     [value |-> value, status |-> status, instance |-> instance,
                      translator |-> translator],
                     so, go,
                     AttributeInit(AttrOid, translator, instance, value,
                                   AttributeStatus[status], rb, hub, so, go))

\* instance.attr
Read ==
    /\ attr # NoAttr
    /\ \E go \in GetOutcomes :
          ApplyAsked("read", PyNone, "stored", go, AttributeGet(attr, hub, go))

\* attr.reread(instance)
Reread ==
    /\ attr # NoAttr
    /\ \E go \in GetOutcomes : Apply("reread", PyNone, reread(attr, hub, go))

\* instance.attr = value
Write ==
    /\ attr # NoAttr
    /\ \E value \in Values, so \in SetOutcomes, go \in GetOutcomes :
          ApplyAsked("write", value, so, go, AttributeSet(attr, hub, value, so, go))

\* del instance.attr
Delete ==
    /\ attr # NoAttr
    /\ Apply("delete", PyNone, AttributeDelete(attr, hub))

Next == Construct \/ Read \/ Reread \/ Write \/ Delete

Spec == Init /\ [][Next]_vars

(***************************************************************************)
(* Properties of one attribute, under Spec.                                *)
(***************************************************************************)
Last == hist[Len(hist)]

\* the get of a read of a NEEDS_READ attribute succeeded
Fetched(rec) ==
    /\ rec.op = "read"
    /\ rec.pre.status = NEEDS_READ
    /\ rec.calls # <<>>
    /\ rec.calls[1].err = ""

\* C1: two consecutive reads of an attribute created NEEDS_READ, the transport
\* get succeeding, make exactly one transport get: the first read makes it and
\* leaves the attribute OK, the second makes no transport call and has the
\* outcome of the first.
C1_ReadTwiceOneGet ==
    (Len(hist) = 2 /\ Fetched(hist[1]) /\ hist[2].op = "read")
    => /\ Len(hist[1].calls) = 1
       /\ hist[1].calls[1].op = "get"
       /\ hist[2].pre.status = OK
       /\ hist[2].calls = <<>>
       /\ hist[2].err = hist[1].err
       /\ hist[2].val = hist[1].val

C1_Witness ==
    /\ Len(hist) = 2
    /\ Fetched(hist[1])
    /\ hist[2].op = "read"
    /\ hist[1].err = ""
    /\ hist[2].err = ""
    /\ hist[2].val = PyInt(7)

\* the last operation was a write whose read-back returned another raw string
\* than the one written
ReadBackDiffers ==
    /\ hist # <<>>
    /\ Last.op = "write"
    /\ Last.pre.readback_after_write
    /\ Len(Last.calls) = 2
    /\ Last.calls[2].err = ""
    /\ Last.calls[2].raw # Last.calls[1].raw

\* C2: with read-back enabled, a write whose read-back returns another raw
\* string than the one written fails with ValueError (WriteNotAccepted) and
\* leaves the attribute, status and cached value, as it was before the call.
C2_RefusedWriteKeepsCache ==
    ReadBackDiffers => (Last.err = "ValueError" /\ attr = Last.pre)

C2_Witness ==
    /\ ReadBackDiffers
    /\ Last.pre.status = OK
    /\ Last.pre.value = <<"7">>
    /\ Last.calls[1].raw = <<"a">>

\* C3: after a write(v) that succeeds the attribute is OK with the cached raw
\* value snmp(v), and a read that follows makes no transport call and
\* returns pyvalue(snmp(v)).
C3_WriteThenRead ==
    /\ (hist # <<>> /\ Last.op = "write" /\ Last.err = "")
       => /\ attr.status = OK
          /\ attr.value = snmp(attr.translator, Last.arg).val
    /\ (Len(hist) = 2 /\ hist[1].op = "write" /\ hist[1].err = ""
            /\ hist[2].op = "read")
       => /\ hist[2].calls = <<>>
          /\ [err |-> hist[2].err, val |-> hist[2].val]
               = pyvalue(attr.translator, snmp(attr.translator, hist[1].arg).val)

C3_Witness ==
    /\ Len(hist) = 2
    /\ hist[1].op = "write"
    /\ hist[1].err = ""
    /\ hist[1].pre.status = NEEDS_READ
    /\ ~hist[1].pre.readback_after_write
    /\ hist[2].op = "read"
    /\ hist[2].val = PyInt(7)

\* C4: an attribute that is OK stays OK in every step: no read, reread,
\* write, refused or failed write, or delete leaves it in another state.
C4_OkAbsorbing ==
    [][(attr # NoAttr /\ attr.status = OK) => (attr' # NoAttr /\ attr'.status = OK)]_vars

C4_Witness ==
    /\ Len(hist) = 2
    /\ hist[1].pre # NoAttr
    /\ hist[1].pre.status = OK
    /\ hist[1].op = "write"
    /\ hist[1].err = "ValueError"
    /\ hist[1].calls # <<>>
    /\ hist[2].op = "delete"
    /\ attr.status = OK

C6_UnsetIsNotNeedsWrite ==
    (hist # <<>> /\ Last.op = "construct" /\ Last.arg.status = "UNSET")
    => /\ Last.calls = <<>>
       /\ Last.err # "TypeError"
       /\ (Last.err = "" => attr.status = UNSET)

\* the calls of a step are one get that returned the raw string
ReadOf(rec, raw) ==
    /\ rec.op \in {"read", "reread"}
    /\ Len(rec.calls) = 1
    /\ rec.calls[1].op = "get"
    /\ rec.calls[1].err = ""
    /\ rec.calls[1].raw = raw

\* the step constructed the attribute OK with the value, without a call
TrustedAtConstruction(rec, a) ==
    /\ rec.op = "construct"
    /\ rec.arg.status = "OK"
    /\ rec.calls = <<>>
    /\ snmp(a.translator, rec.arg.value) = Return(a.value)

\* the calls of a step are a set of the raw string and a get that returned it
VerifiedWriteOf(rec, raw) ==
    /\ rec.op \in {"write", "construct"}
    /\ rec.err = ""
    /\ Len(rec.calls) = 2
    /\ rec.calls[1].op = "set" /\ rec.calls[1].err = "" /\ rec.calls[1].raw = raw
    /\ rec.calls[2].op = "get" /\ rec.calls[2].err = "" /\ rec.calls[2].raw = raw

\* the calls of a step are a set of the raw string alone, read-back being off
UnverifiedWriteOf(rec, a) ==
    /\ rec.op \in {"write", "construct"}
    /\ rec.err = ""
    /\ ~a.readback_after_write
    /\ Len(rec.calls) = 1
    /\ rec.calls[1].op = "set" /\ rec.calls[1].err = "" /\ rec.calls[1].raw = a.value

\* the step left an OK attribute with the value it had: it raised, or made
\* no transport call
KeptBy(rec, before, after) ==
    /\ before # NoAttr
    /\ before.status = OK
    /\ after.value = before.value
    /\ rec.err # "" \/ rec.calls = <<>>

\* C19 as stated: the cached value of an OK attribute is at every step the
\* one it had, the one its successful get of this step returned, the one
\* trusted at construction, or the one written in this step and read back;
\* never one of a write that was not verified.
C19_OkValueVerified ==
    [][(hist' # <<>> /\ attr' # NoAttr /\ attr'.status = OK)
       => \/ KeptBy(hist'[Len(hist')], attr, attr')
          \/ ReadOf(hist'[Len(hist')], attr'.value)
          \/ TrustedAtConstruction(hist'[Len(hist')], attr')
          \/ VerifiedWriteOf(hist'[Len(hist')], attr'.value)]_vars

\* C19 amended: the cached value of an OK attribute is at every step the one
\* it had, the one its successful get of this step returned, the one trusted
\* at construction, the one written in this step and read back, or, with
\* read-back off, the one written in this step by a set that returned.
C19_OkValueFromLastSuccess ==
    [][(hist' # <<>> /\ attr' # NoAttr /\ attr'.status = OK)
       => \/ KeptBy(hist'[Len(hist')], attr, attr')
          \/ ReadOf(hist'[Len(hist')], attr'.value)
          \/ TrustedAtConstruction(hist'[Len(hist')], attr')
          \/ VerifiedWriteOf(hist'[Len(hist')], attr'.value)
          \/ UnverifiedWriteOf(hist'[Len(hist')], attr')]_vars

C19_Witness ==
    /\ Len(hist) = 2
    /\ VerifiedWriteOf(hist[1], <<"7">>)
    /\ hist[1].op = "write"
    /\ hist[1].pre.status = OK
    /\ hist[1].pre.value = <<"a">>
    /\ hist[2].op = "write"
    /\ hist[2].err = "ValueError"
    /\ attr.status = OK
    /\ attr.value = <<"7">>

\* C20: constructing an attribute NEEDS_WRITE with no instance, the value
\* being one the translator has a raw string for, fails with TypeError
\* (MissingWriteContext), makes no transport call, and no attribute is made.
C20_NeedsWriteWithoutInstance ==
    (hist # <<>> /\ Last.op = "construct" /\ Last.arg.status = "NEEDS_WRITE"
        /\ ~Last.arg.instance
        /\ snmp(Last.arg.translator, Last.arg.value).err = "")
    => /\ Last.err = "TypeError"
       /\ Last.calls = <<>>
       /\ attr = NoAttr

C20_Witness ==
    /\ hist # <<>>
    /\ Last.op = "construct"
    /\ Last.arg.status = "NEEDS_WRITE"
    /\ ~Last.arg.instance
    /\ Last.arg.value = PyInt(7)
    /\ Last.err = "TypeError"

(***************************************************************************)
(* One table over the hub.                                                 *)
(***************************************************************************)
TableOid == <<"1", "3">>

ColumnMapping ==
    << [k |-> "1", v |-> [name |-> "port_number", translator |-> "Int",
                          readback_after_write |-> TRUE]],
       [k |-> "2", v |-> [name |-> "address", translator |-> "IPv6",
                          readback_after_write |-> TRUE]],
       [k |-> "3", v |-> [name |-> "rowstatus", translator |-> "RowStatus",
                          readback_after_write |-> TRUE]] >>

\* the columns and rows the hub may hold; column 9 is not declared
WalkColumns == {"1", "2", "3", "9"}
RowKeys == {<<"10">>, <<"20", "1">>}
TableOids == {TableOid \o <<c>> \o r : c \in WalkColumns, r \in RowKeys}

IPv6Example ==
    <<"$", "0", "0", "0", "c", "0", "f", "d", "8", "4", "0", "0", "f",
      "f", "5", "5", "8", "0", "0", "0", "0">>

\* the raw string the hub holds for an OID of the table at the start, when
\* it holds one
WalkRaw(oid) ==
    LET c == column_id(TableOid, oid)
        first == row_id(TableOid, oid) = <<"10">>
    IN  CASE c = "1" -> IF first THEN <<"5">> ELSE <<"0", "7">>
          [] c = "2" -> IF first THEN IPv6Example ELSE <<>>
          [] c = "3" -> IF first THEN <<"1">> ELSE <<"9">>
          [] c = "9" -> <<"z">>

\* the values written to a column
ColumnValues(translator) ==
    CASE translator = "Int" -> {PyInt(7)}
      [] translator = "IPv6" -> {PyIPv6(<<0, 0, 0, 0, 0, 0, 0, 1>>)}
      [] translator = "RowStatus" -> {PyEnum("NOT_IN_USE")}

\* the keyword arguments given to new_row, in the caller's order
KwargsChoices ==
    { <<>>,
      <<[k |-> "port_number", v |-> PyInt(7)]>>,
      <<[k |-> "rowstatus", v |-> PyEnum("CREATE_AND_GO")],
        [k |-> "port_number", v |-> PyInt(7)]>>,
      <<[k |-> "port_number", v |-> PyInt(7)],
        [k |-> "address", v |-> PyIPv6(<<0, 0, 0, 0, 0, 0, 0, 1>>)]>>,
      <<[k |-> "port_number", v |-> PyInt(7)],
        [k |-> "bogus", v |-> PyInt(7)]>> }

\* the hub's answers to the set and the get of one write: stored and read
\* back, ignored, the set failing, the get failing
WriteOutcomes ==
    {<<"stored", "ok">>, <<"ignored", "ok">>, <<"fail", "ok">>, <<"stored", "fail">>}

Present(h) == {oid \in DOMAIN h : h[oid] # Absent}

\* the orders in which a walk may return the OIDs the hub holds
Orderings(S) ==
    {order \in [1..Cardinality(S) -> S] :
        \A i, j \in 1..Cardinality(S) : order[i] = order[j] => i = j}

InitTable ==
    /\ \E P \in SUBSET TableOids :
          /\ Cardinality(P) <= MaxWalk
          /\ hub = [oid \in TableOids |-> IF oid \in P THEN WalkRaw(oid) ELSE Absent]
    /\ attr = NoAttr
    /\ table = <<>>
    /\ loaded = FALSE
    /\ ops = 0
    /\ hist = <<>>
    /\ codec = <<>>

\* the effect of an operation on the table with the outcome r
ApplyTable(name, tgt, arg, val, r) ==
    /\ table' = r.table
    /\ hub' = r.hub
    /\ hist' = <<[op |-> name, tgt |-> tgt, arg |-> arg, pre |-> NoAttr,
                  err |-> r.err, val |-> val, calls |-> r.calls]>>
    /\ UNCHANGED <<attr, codec>>

\* the effect of an operation on the attribute a of a row with the outcome r
ApplyRow(name, key, column, arg, a, r) ==
    /\ table' = WithAttr(table, key, column, r.a)
    /\ hub' = r.hub
    /\ hist' = <<Op(name, <<key, column>>, arg, a, r)>>
    /\ ops' = ops + 1
    /\ UNCHANGED <<attr, loaded, codec>>

\* what snmp_walk returns when the hub is walked in an order
Walked(h, order) == [i \in 1..Len(order) |-> [k |-> order[i], v |-> h[order[i]]]]

\* the outcome of Table.__init__ makes the table; given is the walk_result
\* passed to it, walk_result the one it used
Loaded(walk_result, given, r) ==
    /\ ApplyTable("load", TableOid, walk_result, given, r)
    /\ loaded' = (r.err = "")
    /\ UNCHANGED ops

\* table = Table(transport, table_oid, column_mapping, walk_result=...)
Load ==
    /\ ~loaded
    /\ \E order \in Orderings(Present(hub)), given \in BOOLEAN, wo \in GetOutcomes :
          Loaded(Walked(hub, order),
                 IF given THEN Walked(hub, order) ELSE <<>>,
                 TableInit(TableOid, ColumnMapping,
                           IF given THEN Walked(hub, order) ELSE <<>>,
                           Walked(hub, order), wo, hub))

\* table[key].name
RowRead ==
    /\ loaded
    /\ ops < MaxOps
    /\ \E i \in 1..Len(table) : \E j \in 1..Len(table[i].v.keys), go \in GetOutcomes :
          ApplyRow("read", table[i].k, table[i].v.keys[j], PyNone,
                   table[i].v.attrs[j].v,
                   AttributeGet(table[i].v.attrs[j].v, hub, go))

\* table[key].name = value
RowWrite ==
    /\ loaded
    /\ ops < MaxOps
    /\ \E i \in 1..Len(table) : \E j \in 1..Len(table[i].v.keys), out \in WriteOutcomes :
          \E value \in ColumnValues(table[i].v.attrs[j].v.translator) :
             ApplyRow("write", table[i].k, table[i].v.keys[j], value,
                      table[i].v.attrs[j].v,
                      AttributeSet(table[i].v.attrs[j].v, hub, value, out[1], out[2]))

\* how many writes new_row makes at most for the keyword arguments: one for
\* each that names a column
Writes(kwargs) ==
    Cardinality({i \in 1..Len(kwargs) : \E j \in 1..Len(ColumnMapping) :
                    ColumnMapping[j].v.name = kwargs[i].k})

\* the answers of the hub that were not asked for are the first of them:
\* outs[n] answers the n-th set among the calls
Asked(outs, calls) ==
    \A n \in 1..Len(outs) :
       n > Cardinality({i \in 1..Len(calls) : calls[i].op = "set"})
       => outs[n] = <<"stored", "ok">>

\* the effect of new_row with the outcome r
NewRowStep(row_key, kwargs, outs, r) ==
    /\ Asked(outs, r.calls)
    /\ ApplyTable("new_row", row_key, kwargs, <<>>, r)
    /\ ops' = ops + 1
    /\ UNCHANGED loaded

\* table.new_row(row_key, **kwargs)
NewRow ==
    /\ loaded
    /\ ops < MaxOps
    /\ \E row_key \in RowKeys, kwargs \in KwargsChoices :
       \E outs \in [1..Writes(kwargs) -> WriteOutcomes] :
          NewRowStep(row_key, kwargs, outs,
                     new_row(table, TableOid, ColumnMapping, row_key, kwargs,
                             outs, hub))

\* the effect of the removal of a row with the outcome r
DelItemStep(key, outs, r) ==
    /\ Asked(outs, r.calls)
    /\ ApplyTable("delitem", key, DESTROY, <<>>, r)
    /\ ops' = ops + 1
    /\ UNCHANGED loaded

\* del table[key]
DelItem ==
    /\ loaded
    /\ ops < MaxOps
    /\ \E key \in RowKeys, out \in WriteOutcomes :
          DelItemStep(key, <<out>>, delitem(table, key, out[1], out[2], hub))

NextTable == Load \/ RowRead \/ RowWrite \/ NewRow \/ DelItem

SpecTable == InitTable /\ [][NextTable]_vars

(***************************************************************************)
(* Properties of the table, under SpecTable.                               *)
(***************************************************************************)
\* C7: removing a row that is in the table takes it out of the table,
\* whether the write of DESTROY to its rowstatus succeeded, was refused at
\* the read-back or failed in the transport.
C7_RemovalAlwaysRemoves ==
    (hist # <<>> /\ Last.op = "delitem" /\ Last.err # "KeyError")
    => ~DictHas(table, Last.tgt)

\* C8: a read of a column of a row right after the load returns
\* pyvalue(raw) for the raw string the walk gave for the OID of the column,
\* whatever the translator and the raw string it accepts.
C8_LoadedReadDecodesWalk ==
    [][(hist # <<>> /\ hist[1].op = "load" /\ hist[1].err = ""
            /\ hist' # <<>> /\ hist'[1].op = "read")
       => [err |-> hist'[1].err, val |-> hist'[1].val]
            = pyvalue(hist'[1].pre.translator,
                      DictGet(hist[1].arg, hist'[1].pre.oid))]_vars

\* the row keys and the columns of a row that a walk holds under declared
\* columns
WalkHas(walk, c, r) == \E i \in 1..Len(walk) : walk[i].k = TableOid \o <<c>> \o r
DeclaredIds == {ColumnMapping[j].k : j \in 1..Len(ColumnMapping)}
WalkRowKeys(walk) == {r \in RowKeys : \E c \in DeclaredIds : WalkHas(walk, c, r)}
WalkNames(walk, r) ==
    {ColumnMapping[j].v.name : j \in {n \in 1..Len(ColumnMapping) :
                                          WalkHas(walk, ColumnMapping[n].k, r)}}

\* C9: the loaded table has exactly one row for every row key under which
\* the walk holds an OID of a declared column, and the row has exactly the
\* declared columns the walk holds for it: columns not declared are
\* discarded and rows without a declared column dropped.
C9_TableReconstruction ==
    (hist # <<>> /\ Last.op = "load" /\ Last.err = "")
    => /\ {table[i].k : i \in 1..Len(table)} = WalkRowKeys(Last.arg)
       /\ Len(table) = Cardinality(WalkRowKeys(Last.arg))
       /\ \A i \in 1..Len(table) :
             /\ {table[i].v.keys[j] : j \in 1..Len(table[i].v.keys)}
                   = WalkNames(Last.arg, table[i].k)
             /\ Len(table[i].v.keys) = Cardinality(WalkNames(Last.arg, table[i].k))
             /\ DictKeys(table[i].v.attrs) = table[i].v.keys

C9_Witness ==
    /\ hist # <<>>
    /\ Last.op = "load"
    /\ Last.err = ""
    /\ Len(Last.arg) = 3
    /\ Len(table) = 1
    /\ table[1].k = <<"20", "1">>
    /\ table[1].v.keys = <<"port_number", "address">>
    /\ WalkHas(Last.arg, "9", <<"10">>)

\* C10: new_row with a row key that is in the table fails with ValueError
\* (DuplicateRowKey), makes no transport call and leaves the rows of the
\* table as they were.
C10_DuplicateRowKey ==
    [][(hist' # <<>> /\ hist'[1].op = "new_row" /\ ops' = ops + 1
            /\ DictHas(table, hist'[1].tgt))
       => /\ hist'[1].err = "ValueError"
          /\ hist'[1].calls = <<>>
          /\ table' = table
          /\ hub' = hub]_vars

C10_Witness ==
    /\ hist # <<>>
    /\ Last.op = "new_row"
    /\ Last.err = "ValueError"
    /\ Last.calls = <<>>
    /\ DictHas(table, Last.tgt)
    /\ Len(Last.arg) = 2
    /\ Last.arg[1].k = "rowstatus"

\* a keyword argument names no column of the mapping
HasUnknown(kwargs) ==
    \E i \in 1..Len(kwargs) :
       kwargs[i].k \notin {ColumnMapping[j].v.name : j \in 1..Len(ColumnMapping)}

\* C11 as stated: new_row with a keyword argument that names no declared
\* column fails with TypeError (UnknownColumn), makes no transport call and
\* leaves the table as it was, whatever the row key.
C11_UnknownColumn ==
    [][(hist' # <<>> /\ hist'[1].op = "new_row" /\ ops' = ops + 1
            /\ HasUnknown(hist'[1].arg))
       => /\ hist'[1].err = "TypeError"
          /\ hist'[1].calls = <<>>
          /\ table' = table
          /\ hub' = hub]_vars

\* C11 amended: new_row with a row key that is not in the table and a
\* keyword argument that names no declared column fails with TypeError
\* (UnknownColumn), makes no transport call, also none for the declared
\* columns given with it, and leaves the table as it was.
C11_UnknownColumnNewKey ==
    [][(hist' # <<>> /\ hist'[1].op = "new_row" /\ ops' = ops + 1
            /\ HasUnknown(hist'[1].arg) /\ ~DictHas(table, hist'[1].tgt))
       => /\ hist'[1].err = "TypeError"
          /\ hist'[1].calls = <<>>
          /\ table' = table
          /\ hub' = hub]_vars

C11_Witness ==
    /\ hist # <<>>
    /\ Last.op = "new_row"
    /\ Last.err = "TypeError"
    /\ HasUnknown(Last.arg)
    /\ Last.arg[1].k = "port_number"
    /\ ~DictHas(table, Last.tgt)
    /\ Len(table) = 1

\* the declared columns named by keyword arguments, in declared order
Supplied(kwargs) ==
    LET Named(column) == DictHas(kwargs, column.v.name)
    IN  SelectSeq(ColumnMapping, Named)

\* the OID and raw string of the transport sets among calls, in order
SetsOf(calls) ==
    LET IsSet(call) == call.op = "set"
        sets == SelectSeq(calls, IsSet)
    IN  [i \in 1..Len(sets) |-> [oid |-> sets[i].oid, raw |-> sets[i].raw]]

\* C12: a new_row(k, values) that returns has made one transport set for
\* each supplied column and no other, in the order of the column mapping
\* and not of the caller, each to table_oid.c.k with snmp(value), and the
\* table holds under k a row of exactly the supplied columns, each OK.
C12_NewRowWritesInDeclaredOrder ==
    (hist # <<>> /\ Last.op = "new_row" /\ Last.err = "")
    => /\ SetsOf(Last.calls)
            = [i \in 1..Len(Supplied(Last.arg)) |->
                  [oid |-> TableOid \o <<Supplied(Last.arg)[i].k>> \o Last.tgt,
                   raw |-> snmp(Supplied(Last.arg)[i].v.translator,
                                DictGet(Last.arg, Supplied(Last.arg)[i].v.name)).val]]
       /\ DictHas(table, Last.tgt)
       /\ DictGet(table, Last.tgt).keys
            = [i \in 1..Len(Supplied(Last.arg)) |-> Supplied(Last.arg)[i].v.name]
       /\ DictKeys(DictGet(table, Last.tgt).attrs) = DictGet(table, Last.tgt).keys
       /\ \A j \in 1..Len(DictGet(table, Last.tgt).attrs) :
             DictGet(table, Last.tgt).attrs[j].v.status = OK

C12_Witness ==
    /\ hist # <<>>
    /\ Last.op = "new_row"
    /\ Last.err = ""
    /\ Len(Last.arg) = 2
    /\ Last.arg[1].k = "rowstatus"
    /\ Last.arg[2].k = "port_number"
    /\ Len(SetsOf(Last.calls)) = 2
    /\ SetsOf(Last.calls)[1].oid = TableOid \o <<"1">> \o Last.tgt
    /\ DictGet(table, Last.tgt).keys = <<"port_number", "rowstatus">>

\* the index under which the mapping declares a column name
ColumnIndex(name) ==
    ColumnMapping[CHOOSE j \in 1..Len(ColumnMapping) : ColumnMapping[j].v.name = name].k

\* C13: in every state of the table, after the load and after any new_row,
\* write, read and removal, every attribute of the row under key r is a
\* declared column and has the OID table_oid.c.r, c the index of its column.
C13_RowAttributeOids ==
    \A i \in 1..Len(table) : \A j \in 1..Len(table[i].v.attrs) :
       /\ \E n \in 1..Len(ColumnMapping) :
             ColumnMapping[n].v.name = table[i].v.attrs[j].k
       /\ table[i].v.attrs[j].v.oid
            = TableOid \o <<ColumnIndex(table[i].v.attrs[j].k)>> \o table[i].k

C13_Witness ==
    /\ hist # <<>>
    /\ Last.op = "new_row"
    /\ Last.err = ""
    /\ Last.tgt = <<"20", "1">>
    /\ Len(table) = 2
    /\ table[1].k = <<"10">>
    /\ Len(table[1].v.attrs) = 2
    /\ Len(table[2].v.attrs) = 2
    /\ table[2].v.attrs[2].v.oid = <<"1", "3", "2", "20", "1">>

\* the names the mapping declares, in declared order
DeclaredNames == [j \in 1..Len(ColumnMapping) |-> ColumnMapping[j].v.name]

\* C14: the column names of every row, made by the load or by new_row, are
\* the declared column order restricted to the columns the row has, whatever
\* the order of the walk or of the caller's values, and no name is there
\* twice.
C14_RowColumnOrder ==
    \A i \in 1..Len(table) :
       LET InRow(name) == \E j \in 1..Len(table[i].v.keys) : table[i].v.keys[j] = name
       IN  /\ table[i].v.keys = SelectSeq(DeclaredNames, InRow)
           /\ DictKeys(table[i].v.attrs) = table[i].v.keys
           /\ \A j, n \in 1..Len(table[i].v.keys) :
                 table[i].v.keys[j] = table[i].v.keys[n] => j = n

C14_Witness ==
    /\ hist # <<>>
    /\ Last.op = "load"
    /\ Last.err = ""
    /\ Len(Last.arg) = 3
    /\ column_id(TableOid, Last.arg[1].k) = "3"
    /\ column_id(TableOid, Last.arg[2].k) = "2"
    /\ column_id(TableOid, Last.arg[3].k) = "1"
    /\ Len(table) = 1
    /\ table[1].v.keys = <<"port_number", "address", "rowstatus">>

(***************************************************************************)
(* The translators on their own: a python value is translated to the raw   *)
(* string and the raw string back, or a raw string is translated to the    *)
(* python value.                                                           *)
(***************************************************************************)
CodecTranslators ==
    {"Null", "RowStatus", "Bool", "Int", "Port", "Mac", "IPv4", "IPv6",
     "IPAddress", "DateTime"}

\* python values of the domain of each translator, None apart
CodecValues(translator) ==
    CASE translator = "Null" -> {PyStr(<<"a">>), PyStr(<<"7">>)}
      [] translator = "RowStatus" ->
            {PyEnum(RowStatusMembers[i].name) : i \in 1..Len(RowStatusMembers)}
      [] translator = "Bool" -> {PyBool(TRUE), PyBool(FALSE)}
      [] translator = "Int" -> {PyInt(0), PyInt(7), PyInt(23)}
      [] translator = "Port" -> {PyInt(80)}
      [] translator = "Mac" -> {PyMac(<<"7", "8", "7", "b", "8", "a", "6", "4", "1", "3", "f", "5">>)}
      [] translator = "IPv4" -> {PyIPv4(<<192, 168, 4, 100>>), PyIPv4(<<10, 0, 0, 1>>)}
      [] translator = "IPv6" ->
            {PyIPv6(<<0, 0, 0, 0, 0, 0, 0, 1>>),
             PyIPv6(<<0, 0, 0, 12, 4056, 16399, 62808, 0>>),
             PyIPv6(<<8193, 3512, 0, 0, 0, 65280, 66, 33577>>)}
      [] translator = "IPAddress" ->
            {PyIPv4(<<192, 168, 4, 100>>),
             PyIPv6(<<0, 0, 0, 0, 0, 0, 0, 1>>),
             PyIPv6(<<0, 0, 0, 12, 4056, 16399, 62808, 0>>)}
      [] translator = "DateTime" ->
            {PyDateTime(<<2018, 3, 14, 16, 7, 17>>),
             PyDateTime(<<2024, 2, 29, 23, 59, 59>>)}

\* raw strings given to pyvalue: well formed ones of each translator, and
\* ones without the prefix, of another length, or with a digit that is none
CodecRaws ==
    { <<>>,
      <<"1">>,
      <<"2">>,
      <<"7">>,
      <<"z">>,
      <<"$", "7", "8", "7", "b", "8", "a", "6", "4", "1", "3", "f", "5">>,
      <<"$", "7", "8", "7", "b", "8", "a", "6", "4", "1", "3", "f", "z">>,
      <<"x", "7", "8", "7", "b", "8", "a", "6", "4", "1", "3", "f", "5">>,
      <<"$", "7", "8", "7", "b", "8", "a", "6", "4">>,
      <<"$", "c", "0", "a", "8", "0", "4", "6", "4">>,
      <<"$", "c", "0", "a", "8", "0", "4", "6", "z">>,
      <<"x", "c", "0", "a", "8", "0", "4", "6", "4">>,
      <<"c", "0", "a", "8">>,
      <<"$", "c", "0", "a", "8">>,
      <<"$", "0", "0", "0", "c", "0", "f", "d", "8", "4", "0", "0", "f", "f", "5", "5", "8", "0", "0", "0", "0">>,
      <<"x", "0", "0", "0", "c", "0", "f", "d", "8", "4", "0", "0", "f", "f", "5", "5", "8", "0", "0", "0", "0">>,
      <<"$", "0", "0", "0", "c", "0", "f", "d", "8", "4", "0", "0", "f", "f", "5", "5", "8", "0", "0", "0", "z">>,
      <<"$", "0", "0", "0", "0", "0", "0", "0", "0", "0", "0", "0", "0", "0", "0", "0", "0", "0", "0", "0", "0", "0", "0", "0", "0", "0", "0", "0", "0", "0", "0", "0", "0", "1">>,
      <<"$", "0", "7", "e", "2", "0", "3", "0", "e", "1", "0", "0", "7", "1", "1", "0", "0">>,
      <<"x", "0", "7", "e", "2", "0", "3", "0", "e", "1", "0", "0", "7", "1", "1", "0", "0">>,
      <<"$", "0", "7", "e", "2", "0", "3", "0", "e", "1", "0", "0", "7", "1", "1", "0", "0", "f", "f">>,
      <<"$", "0", "7", "e", "2", "0", "3", "0", "e", "1", "0", "0", "7", "1">>,
      <<"$", "0", "7", "e", "2", "0", "3", "0", "e", "1", "0", "0", "7", "1", "1", "z", "z">> }

NoCodec == <<>>

\* no outcome yet
Pending == [err |-> "pending", val |-> <<>>]

InitCodec ==
    /\ \E translator \in CodecTranslators :
          \/ \E value \in CodecValues(translator) \cup {PyNone} :
                codec = [translator |-> translator, given |-> "value",
                         stage |-> "value", value |-> value,
                         raw |-> Pending, decoded |-> Pending]
          \/ \E raw \in CodecRaws :
                codec = [translator |-> translator, given |-> "raw",
                         stage |-> "raw", value |-> PyNone,
                         raw |-> Return(raw), decoded |-> Pending]
    /\ hub = <<>>
    /\ attr = NoAttr
    /\ table = <<>>
    /\ loaded = FALSE
    /\ ops = 0
    /\ hist = <<>>

\* raw = translator.snmp(value)
Encode ==
    /\ codec # NoCodec
    /\ codec.stage = "value"
    /\ codec' = [codec EXCEPT !.raw = snmp(codec.translator, codec.value),
                              !.stage = "raw"]
    /\ UNCHANGED <<hub, attr, table, loaded, ops, hist>>

\* translator.pyvalue(raw)
Decode ==
    /\ codec # NoCodec
    /\ codec.stage = "raw"
    /\ codec.raw.err = ""
    /\ codec' = [codec EXCEPT !.decoded = pyvalue(codec.translator, codec.raw.val),
                              !.stage = "decoded"]
    /\ UNCHANGED <<hub, attr, table, loaded, ops, hist>>

NextCodec == Encode \/ Decode

SpecCodec == InitCodec /\ [][NextCodec]_vars

(***************************************************************************)
(* Properties of the translators, under SpecCodec.                         *)
(***************************************************************************)
\* C15: for every translator and every value of its domain other than None,
\* pyvalue(snmp(value)) is the value; also for an IPv6 address with a group
\* above 0xff.
C15_RoundTrip ==
    (codec # NoCodec /\ codec.given = "value" /\ codec.value # PyNone
        /\ codec.stage = "decoded")
    => codec.decoded = Return(codec.value)

\* C16: for every translator but the one of an enumeration, pyvalue of the
\* empty raw string is None.
C16_EmptyRawIsNone ==
    (codec # NoCodec /\ codec.given = "raw" /\ codec.raw.val = <<>>
        /\ codec.stage = "decoded" /\ codec.translator # "RowStatus")
    => codec.decoded = Return(PyNone)

\* the translators whose raw string is '$' and hex digits
Framed == {"Mac", "IPv4", "IPv6", "IPAddress", "DateTime"}

\* the lengths of the raw string a framed translator allows
FrameLengths(translator) ==
    CASE translator = "Mac" -> {13}
      [] translator = "IPv4" -> {9}
      [] translator = "IPv6" -> 9..33
      [] translator = "IPAddress" -> 9..33
      [] translator = "DateTime" -> {17}

\* a raw string that is not empty and lacks the prefix, has a length the
\* translator does not allow, or holds a digit that is not hexadecimal
Malformed(translator, raw) ==
    /\ raw # <<>>
    /\ \/ raw[1] # "$"
       \/ Len(raw) \notin FrameLengths(translator)
       \/ \E i \in 2..Len(raw) : ~IsHex(raw[i])

\* C17: pyvalue of a framed translator on a malformed raw string raises; it
\* returns no value, and no exception as a value.
C17_MalformedRawRaises ==
    (codec # NoCodec /\ codec.given = "raw" /\ codec.stage = "decoded"
        /\ codec.translator \in Framed
        /\ Malformed(codec.translator, codec.raw.val))
    => codec.decoded.err # ""

\* C18: the load makes exactly one transport walk, none when it is given a
\* walk result that is not empty, and no get or set; after it every
\* attribute of every row is OK, and a read of any makes no transport call.
C18_LoadOneWalk ==
    (hist # <<>> /\ Last.op = "load")
    => /\ IF Last.val # <<>> THEN Last.calls = <<>>
          ELSE Len(Last.calls) = 1 /\ Last.calls[1].op = "walk"
       /\ Last.err = ""
          => \A i \in 1..Len(table) : \A j \in 1..Len(table[i].v.attrs) :
                /\ table[i].v.attrs[j].v.status = OK
                /\ \A go \in GetOutcomes :
                      /\ AttributeGet(table[i].v.attrs[j].v, hub, go).calls = <<>>
                      /\ AttributeGet(table[i].v.attrs[j].v, hub, go).err = ""

C18_Witness ==
    /\ hist # <<>>
    /\ Last.op = "load"
    /\ Last.err = ""
    /\ Last.val = <<>>
    /\ Len(Last.calls) = 1
    /\ Len(table) = 2
    /\ Len(table[1].v.attrs) = 2

\* C21: a load whose walk returned, with an empty result or with no OID
\* under a declared column, does not fail and gives a table of zero rows.
C21_EmptyLoadIsNotAnError ==
    (hist # <<>> /\ Last.op = "load"
        /\ (\A i \in 1..Len(Last.calls) : Last.calls[i].err = "")
        /\ WalkRowKeys(Last.arg) = {})
    => /\ Last.err = ""
       /\ table = <<>>
       /\ loaded

\* an empty walk
C21_Witness ==
    /\ hist # <<>>
    /\ Last.op = "load"
    /\ Last.err = ""
    /\ Len(Last.calls) = 1
    /\ Last.arg = <<>>
    /\ table = <<>>
    /\ loaded

\* a walk of two OIDs, both under the column that is not declared
C21_WitnessUndeclared ==
    /\ hist # <<>>
    /\ Last.op = "load"
    /\ Last.err = ""
    /\ Len(Last.arg) = 2
    /\ \A i \in 1..2 : column_id(TableOid, Last.arg[i].k) = "9"
    /\ table = <<>>
    /\ loaded

(***************************************************************************)
(* Further properties of one attribute, under Spec.                        *)
(***************************************************************************)
\* C22: a write of a value the translator has a raw string for makes
\* exactly one transport set, first, of that raw string to the OID of the
\* attribute, and then exactly one get of the OID if and only if the set
\* returned and read-back is on; a read makes at most one get, and only of
\* an attribute that is NEEDS_READ; no operation makes a call after one
\* that failed.
C22_WriteProtocolNoRetry ==
    /\ (hist # <<>> /\ Last.op = "write"
            /\ snmp(Last.pre.translator, Last.arg).err = "")
       => /\ Len(Last.calls) = IF Last.calls[1].err = "" /\ Last.pre.readback_after_write
                               THEN 2 ELSE 1
          /\ Last.calls[1] = [op |-> "set", oid |-> Last.pre.oid,
                              raw |-> snmp(Last.pre.translator, Last.arg).val,
                              datatype |-> Last.pre.datatype,
                              err |-> Last.calls[1].err]
          /\ Len(Last.calls) = 2
             => /\ Last.calls[2].op = "get"
                /\ Last.calls[2].oid = Last.pre.oid
    /\ (hist # <<>> /\ Last.op = "read")
       => /\ Len(Last.calls) = IF Last.pre.status = NEEDS_READ THEN 1 ELSE 0
          /\ \A i \in 1..Len(Last.calls) :
                Last.calls[i].op = "get" /\ Last.calls[i].oid = Last.pre.oid
    /\ hist # <<>>
       => \A i \in 1..(Len(Last.calls) - 1) : Last.calls[i].err = ""

\* a write whose read-back differed, then a write whose set failed
C22_Witness ==
    /\ Len(hist) = 2
    /\ hist[1].op = "write"
    /\ hist[1].err = "ValueError"
    /\ Len(hist[1].calls) = 2
    /\ hist[1].calls[1].raw = <<"7">>
    /\ hist[2].op = "write"
    /\ hist[2].err = "TransportError"
    /\ Len(hist[2].calls) = 1
    /\ hist[2].pre.readback_after_write

(***************************************************************************)
(* Further properties of the table, under SpecTable.                       *)
(***************************************************************************)
\* the rowstatus attribute of the row under a key
RowStatusOf(t, key) == DictGet(DictGet(t, key).attrs, "rowstatus")

\* C23: the removal of a row that is in the table and has a rowstatus
\* column makes exactly one transport set, its first call, of "6" (DESTROY)
\* to the OID of that attribute, in the step in which the row leaves the
\* table; the removal of a row without the column makes no transport call
\* and removes the row.
C23_RemovalSetsDestroyOnce ==
    [][(hist' # <<>> /\ hist'[1].op = "delitem" /\ ops' = ops + 1
            /\ DictHas(table, hist'[1].tgt))
       => IF DictHas(DictGet(table, hist'[1].tgt).attrs, "rowstatus")
          THEN /\ SetsOf(hist'[1].calls)
                    = <<[oid |-> RowStatusOf(table, hist'[1].tgt).oid, raw |-> <<"6">>]>>
               /\ hist'[1].calls[1].op = "set"
               /\ RowStatusOf(table, hist'[1].tgt).oid
                    = TableOid \o <<"3">> \o hist'[1].tgt
          ELSE /\ hist'[1].calls = <<>>
               /\ hub' = hub
               /\ ~DictHas(table', hist'[1].tgt)]_vars

\* a row with the column removed: the set of "6" stored and read back
C23_Witness ==
    /\ hist # <<>>
    /\ Last.op = "delitem"
    /\ Last.err = ""
    /\ Last.tgt = <<"10">>
    /\ Len(Last.calls) = 2
    /\ Last.calls[1].raw = <<"6">>
    /\ hub[TableOid \o <<"3", "10">>] = <<"6">>
    /\ ~DictHas(table, <<"10">>)

\* a row without the column removed
C23_WitnessNoRowStatus ==
    /\ hist # <<>>
    /\ Last.op = "delitem"
    /\ Last.err = ""
    /\ Last.calls = <<>>
    /\ ops = 1
    /\ hub[TableOid \o <<"1">> \o Last.tgt] # Absent
    /\ ~DictHas(table, Last.tgt)

\* C24: a read or a write of one attribute of a row leaves every other
\* attribute of the table, of the same row and of every other row, with the
\* status and the value it had, and the table with the rows and each row
\* with the columns it had.
C24_OtherAttributesUntouched ==
    [][(hist' # <<>> /\ hist'[1].op \in {"read", "write"} /\ ops' = ops + 1)
       => /\ DictKeys(table') = DictKeys(table)
          /\ \A i \in 1..Len(table) :
                /\ table'[i].v.keys = table[i].v.keys
                /\ DictKeys(table'[i].v.attrs) = DictKeys(table[i].v.attrs)
                /\ \A j \in 1..Len(table[i].v.attrs) :
                      <<table[i].k, table[i].v.attrs[j].k>> # hist'[1].tgt
                      => table'[i].v.attrs[j] = table[i].v.attrs[j]]_vars

\* a write that changed the cached port number of one row of two, the other
\* row having the column too
C24_Witness ==
    /\ hist # <<>>
    /\ Last.op = "write"
    /\ Last.err = ""
    /\ Last.tgt = << <<"10">>, "port_number" >>
    /\ Last.pre.value = <<"5">>
    /\ Len(table) = 2
    /\ DictGet(DictGet(table, <<"10">>).attrs, "port_number").value = <<"7">>
    /\ DictHas(DictGet(table, <<"20", "1">>).attrs, "port_number")

\* the last of the transport calls failed, or was a read-back that returned
\* another raw string than the one set
WriteFailedIn(calls) ==
    /\ calls # <<>>
    /\ \/ calls[Len(calls)].err # ""
       \/ /\ calls[Len(calls)].op = "get"
          /\ calls[Len(calls)].raw # calls[Len(calls) - 1].raw

\* the sets new_row makes for keyword arguments when none fails, in order
SetsFor(kwargs, row_key) ==
    [i \in 1..Len(Supplied(kwargs)) |->
        [oid |-> TableOid \o <<Supplied(kwargs)[i].k>> \o row_key,
         raw |-> snmp(Supplied(kwargs)[i].v.translator,
                      DictGet(kwargs, Supplied(kwargs)[i].v.name)).val]]

\* C25: when the write of a column fails in new_row, in the transport or at
\* the read-back, new_row fails with that error, the table is as it was and
\* has no row under the key; the transport calls are the sets of the
\* columns up to the failing one in declared order and nothing that undoes
\* them: the hub holds what the earlier columns set and read back.
C25_NewRowFailureKeepsEarlierSets ==
    [][(hist' # <<>> /\ hist'[1].op = "new_row" /\ ops' = ops + 1
            /\ WriteFailedIn(hist'[1].calls))
       => /\ hist'[1].err \in {"TransportError", "ValueError"}
          /\ table' = table
          /\ ~DictHas(table', hist'[1].tgt)
          /\ SetsOf(hist'[1].calls)
               = SubSeq(SetsFor(hist'[1].arg, hist'[1].tgt), 1,
                        Len(SetsOf(hist'[1].calls)))
          /\ \A i \in 1..(Len(hist'[1].calls) - 2) :
                (hist'[1].calls[i].op = "set" /\ hist'[1].calls[i + 1].op = "get")
                => hub'[hist'[1].calls[i].oid] = hist'[1].calls[i].raw]_vars

\* the port number of a new row was set and read back, then the set of its
\* rowstatus failed: no row, and the hub holds the port number
C25_Witness ==
    /\ hist # <<>>
    /\ Last.op = "new_row"
    /\ Last.err = "TransportError"
    /\ Last.tgt = <<"20", "1">>
    /\ Len(SetsOf(Last.calls)) = 2
    /\ Len(Last.calls) = 3
    /\ ~DictHas(table, <<"20", "1">>)
    /\ hub[TableOid \o <<"1", "20", "1">>] = <<"7">>
    /\ hub[TableOid \o <<"3", "20", "1">>] = Absent

\* the cached raw string of the attribute is the one the hub holds
Coherent(a, h) == a.value = h[a.oid]

\* the set of the step was stored and its read-back get failed
LostReadBack(rec, before, after) ==
    /\ Len(rec.calls) = 2
    /\ rec.calls[1].op = "set"
    /\ rec.calls[2].err # ""
    /\ after # before

\* C26 as stated: with read-back on, an OK attribute caches in every state
\* the raw string the hub holds for its OID.
C26_CacheCoherent ==
    (attr # NoAttr /\ attr.status = OK /\ attr.readback_after_write)
    => Coherent(attr, hub)

\* C26 amended: with read-back on, every step that leaves the attribute OK
\* leaves its cached raw string the one the hub holds, if it was so before
\* or the attribute was not OK before, also a write refused at the
\* read-back or whose set failed; but for the construction of an attribute
\* OK with a given value, and for a write whose set was stored and whose
\* read-back get failed.
C26_CoherenceKept ==
    [][(/\ hist' # <<>>
        /\ attr' # NoAttr /\ attr'.status = OK /\ attr'.readback_after_write
        /\ (attr # NoAttr /\ attr.status = OK) => Coherent(attr, hub)
        /\ ~TrustedAtConstruction(hist'[Len(hist')], attr')
        /\ ~LostReadBack(hist'[Len(hist')], hub, hub'))
       => Coherent(attr', hub')]_vars

\* a read fetched "a"; the write of 7 was then refused at the read-back
C26_Witness ==
    /\ Len(hist) = 2
    /\ Fetched(hist[1])
    /\ hist[2].op = "write"
    /\ hist[2].err = "ValueError"
    /\ Len(hist[2].calls) = 2
    /\ hist[2].calls[1].raw = <<"7">>
    /\ attr.status = OK
    /\ attr.readback_after_write
    /\ attr.value = <<"a">>
    /\ Coherent(attr, hub)

\* a transport call of the operation failed
TransportFailed(rec) ==
    \E i \in 1..Len(rec.calls) : rec.calls[i].err = "TransportError"

\* C27: a read of a NEEDS_READ attribute whose get fails, and a write whose
\* set or read-back get fails, raise the TransportError and leave the
\* attribute, status and cached value, as it was; after such a read the
\* attribute is NEEDS_READ and the next read makes a get again.
C27_TransportErrorKeepsCache ==
    /\ (hist # <<>> /\ Last.op \in {"read", "write"} /\ TransportFailed(Last))
       => /\ Last.err = "TransportError"
          /\ attr = Last.pre
    /\ (Len(hist) = 2 /\ hist[1].op = "read" /\ TransportFailed(hist[1])
            /\ hist[2].op = "read")
       => /\ hist[2].pre.status = NEEDS_READ
          /\ Len(hist[2].calls) = 1
          /\ hist[2].calls[1].op = "get"
          /\ hist[2].calls[1].oid = hist[2].pre.oid

\* the get of a read failed, the get of the next read answered
C27_Witness ==
    /\ Len(hist) = 2
    /\ hist[1].op = "read"
    /\ TransportFailed(hist[1])
    /\ hist[1].pre.status = NEEDS_READ
    /\ hist[2].op = "read"
    /\ hist[2].err = ""
    /\ hist[2].val = PyInt(7)
    /\ attr.status = OK

\* the read-back get of a write to an OK attribute failed, the set stored
C27_WitnessWrite ==
    /\ hist # <<>>
    /\ Last.op = "write"
    /\ Len(Last.calls) = 2
    /\ Last.calls[2].err = "TransportError"
    /\ Last.pre.status = OK
    /\ attr.value = <<"a">>
    /\ hub[AttrOid] = <<"7">>
====
